---- MODULE Spec2Model ----
(***************************************************************************)
(* The circuit simulation worker (src/simulation-worker.js) as a state     *)
(* machine: the simulationState singleton, the timer handle                *)
(* simulationInterval with the set of interval timers the runtime keeps    *)
(* alive, the message handlers of self.onmessage and the timer callbacks.  *)
(*                                                                         *)
(* Units.  JavaScript numbers are modelled as integers at a fixed          *)
(* resolution: voltage in mV, current in uA, power in uW, resistance in    *)
(* ohm, capacitance in uF, inductance in mH, frequency in Hz, simulated    *)
(* time in steps of 0.01 s (so "time += 0.01 * speed" is time + speed),     *)
(* smoothingFactor and varianceThreshold in hundredths.                    *)
(***************************************************************************)
EXTENDS Integers, Sequences, FiniteSets, TLC

(* ---------------- bounds of the model ---------------- *)
MaxTimers == 2        \* setInterval calls explored
MaxTime == 4          \* simulated time explored, in 0.01 s
MaxIterations == 2    \* iterationCount explored

(* ---------------- JavaScript values ---------------- *)
\* a numeric field that is absent (undefined)
Undefined == -999999
\* the number NaN
NaN == -888888
\* an object stored where a number is expected (truthy, not a valid number)
JSObject == -777777
\* Infinity or -Infinity (the sign is not kept: the parameters explored are
\* not negative)
Infinity == -666666

Falsy(v) == v \in {Undefined, NaN, 0}

\* v || d
OrElse(v, d) == IF Falsy(v) THEN d ELSE v

\* not a finite number
NotNumber(v) == v \in {Undefined, NaN, JSObject, Infinity}

\* undefined, NaN or an object as an operand: the result is NaN
NotNumeric(v) == v \in {Undefined, NaN, JSObject}

Mul(a, b) ==
    IF NotNumeric(a) \/ NotNumeric(b) THEN NaN
    ELSE IF a = Infinity \/ b = Infinity THEN (IF a = 0 \/ b = 0 THEN NaN ELSE Infinity)
    ELSE a * b

Add(a, b) ==
    IF NotNumeric(a) \/ NotNumeric(b) THEN NaN
    ELSE IF a = Infinity \/ b = Infinity THEN Infinity
    ELSE a + b

\* a / b: x / 0 is Infinity, 0 / 0 and Infinity / Infinity are NaN
Quot(a, b) ==
    IF NotNumeric(a) \/ NotNumeric(b) THEN NaN
    ELSE IF a = Infinity THEN (IF b = Infinity THEN NaN ELSE Infinity)
    ELSE IF b = Infinity THEN 0
    ELSE IF b = 0 THEN (IF a = 0 THEN NaN ELSE Infinity)
    ELSE a \div b

\* a * b / 1000, without the intermediate product
Milli(a, b) ==
    IF NotNumeric(a) \/ NotNumeric(b) THEN NaN
    ELSE IF a = Infinity \/ b = Infinity THEN (IF a = 0 \/ b = 0 THEN NaN ELSE Infinity)
    ELSE a * (b \div 1000) + (a * (b % 1000)) \div 1000

Max(a, b) == IF a >= b THEN a ELSE b

SeqToSet(s) == {s[i] : i \in 1..Len(s)}

(* ---------------- SIMULATION_STABILITY ---------------- *)
VALUES_HISTORY_SIZE == 5

(* ---------------- SimulationValidator ---------------- *)
isValidNumber(v) == ~NotNumber(v)

\* every component of the model is an object with a string type, so the
\* function returns true; its effect is the repair of the top-level fields
validateComponent(c) ==
    LET c1 == CASE c.type = "resistor" /\ c.resistance # Undefined /\ ~isValidNumber(c.resistance)
                     -> [c EXCEPT !.resistance = 1000]
                [] c.type = "capacitor" /\ c.capacitance # Undefined /\ ~isValidNumber(c.capacitance)
                     -> [c EXCEPT !.capacitance = 1]
                [] c.type = "inductor" /\ c.inductance # Undefined /\ ~isValidNumber(c.inductance)
                     -> [c EXCEPT !.inductance = 1]
                [] c.type = "voltage-source" /\ c.voltage # Undefined /\ ~isValidNumber(c.voltage)
                     -> [c EXCEPT !.voltage = 5000]
                [] c.type = "current-source" /\ c.current # Undefined /\ ~isValidNumber(c.current)
                     -> [c EXCEPT !.current = 10000]
                [] OTHER -> c
        c2 == IF c1.voltage # Undefined /\ ~isValidNumber(c1.voltage)
              THEN [c1 EXCEPT !.voltage = 0] ELSE c1
    IN  IF c2.current # Undefined /\ ~isValidNumber(c2.current)
        THEN [c2 EXCEPT !.current = 0] ELSE c2

\* the return value of validateWire
validWire(w) == w.startComponent # "" /\ w.endComponent # ""

validateWire(w) ==
    IF ~validWire(w) THEN w
    ELSE LET w1 == IF w.voltage # Undefined /\ ~isValidNumber(w.voltage)
                   THEN [w EXCEPT !.voltage = 0] ELSE w
         IN  IF w1.current # Undefined /\ ~isValidNumber(w1.current)
             THEN [w1 EXCEPT !.current = 0] ELSE w1

(* ---------------- components and wires sent by the editor ---------------- *)
NoProperties == [resistance |-> Undefined, voltage |-> Undefined, has |-> FALSE,
                 frequency |-> Undefined]

Properties(v, r, f) == [resistance |-> r, voltage |-> v, has |-> TRUE, frequency |-> f]

NoValues == [voltage |-> Undefined, current |-> Undefined, has |-> FALSE, power |-> Undefined]

Values(v, i, p) == [voltage |-> v, current |-> i, has |-> TRUE, power |-> p]

ZeroValues == Values(0, 0, 0)

NoValue == [obj |-> FALSE, n |-> Undefined]

\* a component as the editor's Component class builds it: properties and
\* values present, no top-level electrical fields
EditorComponent(id, type, props, vals) ==
    [type |-> type, resistance |-> Undefined, capacitance |-> Undefined,
     inductance |-> Undefined, voltage |-> Undefined, current |-> Undefined,
     id |-> id, properties |-> props, values |-> vals, value |-> NoValue]

\* a component in the flat shape the transient analysis reads
FlatComponent(id, type, vals, v, i, r) ==
    [type |-> type, resistance |-> r, capacitance |-> Undefined,
     inductance |-> Undefined, voltage |-> v, current |-> i,
     id |-> id, properties |-> NoProperties, values |-> vals, value |-> NoValue]

Wire(id, s, e, i, v) ==
    [voltage |-> v, current |-> i, startComponent |-> s, endComponent |-> e,
     id |-> id, source |-> s, target |-> e]

\* 10 V source at 60 Hz, 1 kOhm resistor, capacitor, ground: a series RC circuit
CircuitRC ==
    [components |-> << EditorComponent("v1", "voltage-source", Properties(10000, Undefined, 60), ZeroValues),
                       EditorComponent("r1", "resistor", Properties(Undefined, 1000, Undefined), ZeroValues),
                       EditorComponent("c1", "capacitor", Properties(Undefined, Undefined, Undefined), ZeroValues),
                       EditorComponent("g1", "ground", Properties(Undefined, Undefined, Undefined), ZeroValues) >>,
     wires |-> << Wire("w1", "v1", "r1", 0, 0), Wire("w2", "", "", 0, 0) >>]

\* 10 V source and 1 kOhm resistor with a capacitor and an inductor that
\* still carry the values of the run before, and a ground
CircuitDivider ==
    [components |-> << EditorComponent("v3", "voltage-source", Properties(10000, Undefined, 60), ZeroValues),
                       EditorComponent("r3", "resistor", Properties(Undefined, 1000, Undefined), ZeroValues),
                       EditorComponent("c3", "capacitor", Properties(Undefined, Undefined, Undefined),
                                       Values(3000, 1000, 3000)),
                       EditorComponent("l3", "inductor", Properties(Undefined, Undefined, Undefined),
                                       Values(2000, 1000, 2000)),
                       EditorComponent("g3", "ground", Properties(Undefined, Undefined, Undefined), ZeroValues) >>,
     wires |-> << Wire("w5", "v3", "r3", 0, 0), Wire("w6", "", "", 0, 0) >>]

\* flat-shaped source (no properties field) in front of a capacitor and an
\* inductor that still carry the values of the run before
CircuitFlat ==
    [components |-> << FlatComponent("v2", "voltage-source", ZeroValues, 5000, Undefined, Undefined),
                       EditorComponent("c2", "capacitor", NoProperties, Values(3000, 1000, 3000)),
                       EditorComponent("l2", "inductor", NoProperties, Values(2000, 1000, 2000)) >>,
     wires |-> << Wire("w3", "v2", "c2", 5000, 3000) >>]

\* resistor and inductor without any source
CircuitNoSource ==
    [components |-> << EditorComponent("r4", "resistor", Properties(Undefined, 2000, Undefined), ZeroValues),
                       EditorComponent("l4", "inductor", Properties(Undefined, Undefined, Undefined), ZeroValues) >>,
     wires |-> << Wire("w4", "r4", "l4", 0, 0) >>]

\* 200 V source in front of a 100 Ohm resistor, a resistor whose resistance
\* property is NaN and a resistor of 0 Ohm
CircuitExtreme ==
    [components |-> << EditorComponent("v5", "voltage-source", Properties(200000, Undefined, 60), ZeroValues),
                       EditorComponent("r5", "resistor", Properties(Undefined, 100, Undefined), ZeroValues),
                       EditorComponent("r6", "resistor", Properties(Undefined, NaN, Undefined), ZeroValues),
                       EditorComponent("r7", "resistor", Properties(Undefined, 0, Undefined), ZeroValues) >>,
     wires |-> << Wire("w7", "r7", "v5", 0, 0) >>]

\* flat-shaped capacitor of 1 uF charged by a constant 100 uA next to a
\* source; the wire starts at the capacitor
CircuitCharging ==
    [components |-> << FlatComponent("v6", "voltage-source", ZeroValues, 5000, Undefined, Undefined),
                       FlatComponent("c6", "capacitor", ZeroValues, Undefined, 100, Undefined) >>,
     wires |-> << Wire("w8", "c6", "v6", 0, 0) >>]

\* voltage divider: 10 V source, two 1 kOhm resistors in series, ground
CircuitSeries ==
    [components |-> << EditorComponent("v8", "voltage-source", Properties(10000, Undefined, 60), ZeroValues),
                       EditorComponent("r8", "resistor", Properties(Undefined, 1000, Undefined), ZeroValues),
                       EditorComponent("r9", "resistor", Properties(Undefined, 1000, Undefined), ZeroValues),
                       EditorComponent("g8", "ground", Properties(Undefined, Undefined, Undefined), ZeroValues) >>,
     wires |-> << Wire("w9", "v8", "r8", 0, 0), Wire("w10", "r8", "r9", 0, 0),
                  Wire("w11", "r9", "g8", 0, 0) >>]

\* data without components and wires
CircuitEmpty == [components |-> << >>, wires |-> << >>]

StartData(circuit, simulationType, simulationSpeed) ==
    [components |-> circuit.components, wires |-> circuit.wires,
     simulationType |-> simulationType, simulationSpeed |-> simulationSpeed]

\* the start-simulation messages explored; simulationSpeed 0 stands for a
\* message without the field, "noise" for a type the worker does not know;
\* one message asks for the speed -1
StartMessages ==
    { StartData(CircuitRC, "tran", 0), StartData(CircuitRC, "ac", 2),
      StartData(CircuitDivider, "dc", 0), StartData(CircuitFlat, "dc", 0),
      StartData(CircuitNoSource, "ac", 0), StartData(CircuitEmpty, "noise", 0),
      StartData(CircuitExtreme, "dc", 0), StartData(CircuitCharging, "tran", 0),
      StartData(CircuitSeries, "dc", 0), StartData(CircuitEmpty, "tran", 0 - 1) }

\* a history object or Map without entries
EmptyHistory == [id \in {} |-> 0]

(* ---------------- state ---------------- *)
VARIABLES
    running, speed, type, components, wires, time, iterationCount,
    componentValueHistory, wireValueHistory, stabilized, stabilityTracker,
    simulationInterval,   \* the global the handle is kept in
    timers,               \* interval timers alive in the runtime
    nextTimerId,          \* next handle setInterval returns
    outbox,               \* messages posted by the last handler or callback
    lastOp,               \* the handler or callback that ran last
    threw,                \* it ended with an uncaught exception
    lifecycle             \* last of start/pause/stop that was handled

simState == << running, speed, type, components, wires, time, iterationCount,
               componentValueHistory, wireValueHistory, stabilized, stabilityTracker >>

\* the circuit editor of the page: window.componentManager and
\* window.wireManager
VARIABLES
    managerComponents,    \* componentManager.components, a Map from id to Component
    managerWires,         \* wireManager.wires, a Map from wire number to Wire
    wireIdCounter,        \* wireManager.wireIdCounter
    createdComponents,    \* components constructed so far: each gets a fresh id
    editorOp              \* the editor operation that ran last

editorState == << managerComponents, managerWires, wireIdCounter, createdComponents, editorOp >>

vars == << running, speed, type, components, wires, time, iterationCount,
           componentValueHistory, wireValueHistory, stabilized, stabilityTracker,
           simulationInterval, timers, nextTimerId, outbox, lastOp, threw, lifecycle,
           managerComponents, managerWires, wireIdCounter, createdComponents, editorOp >>

\* simulationInterval is assigned without a declaration: until the first
\* assignment the identifier does not exist
Undeclared == [id |-> 0, state |-> "undeclared"]

NullHandle == [id |-> 0, state |-> "null"]

Handle(id) == [id |-> id, state |-> "timer"]

\* simulationState.stabilityTracker of a worker that was just loaded
InitialTracker ==
    [samplesCollected |-> 0, maxSamples |-> 5, prevValues |-> EmptyHistory,
     smoothingFactor |-> 70, varianceThreshold |-> 10]

Init ==
    /\ running = FALSE
    /\ speed = 1
    /\ type = "transient"
    /\ components = << >>
    /\ wires = << >>
    /\ time = 0
    /\ iterationCount = 0
    /\ componentValueHistory = EmptyHistory
    /\ wireValueHistory = EmptyHistory
    /\ stabilized = FALSE
    /\ stabilityTracker = InitialTracker
    /\ simulationInterval = Undeclared
    /\ timers = {}
    /\ nextTimerId = 1
    /\ outbox = << >>
    /\ lastOp = "init"
    /\ threw = FALSE
    /\ lifecycle = "none"
    /\ managerComponents = EmptyHistory
    /\ managerWires = EmptyHistory
    /\ wireIdCounter = 0
    /\ createdComponents = 0
    /\ editorOp = "init"

(* ---------------- messages posted to the main thread ---------------- *)
Message(t, cs, ws, tm) == [type |-> t, components |-> cs, wires |-> ws, time |-> tm]

Bare(t) == Message(t, << >>, << >>, 0)

ComponentSnapshot(cs) == [i \in 1..Len(cs) |-> [id |-> cs[i].id, values |-> cs[i].values]]

WireSnapshot(ws) == [i \in 1..Len(ws) |-> [voltage |-> ws[i].voltage, current |-> ws[i].current,
                                            id |-> ws[i].id]]

(* ---------------- initializeValueHistory ---------------- *)
Fill(v) == [k \in 1..VALUES_HISTORY_SIZE |-> v]

Ids(s) == {s[i].id : i \in 1..Len(s)}

\* the entry forEach leaves for an id is that of the last element with the id
LastWith(s, id) == s[CHOOSE i \in 1..Len(s) : s[i].id = id /\ \A j \in (i+1)..Len(s) : s[j].id # id]

initComponentHistory(hist, cs) ==
    [id \in (DOMAIN hist) \cup Ids(cs) |->
        IF id \in Ids(cs)
        THEN [voltage |-> Fill(OrElse(LastWith(cs, id).values.voltage, 0)),
              current |-> Fill(OrElse(LastWith(cs, id).values.current, 0))]
        ELSE hist[id]]

initWireHistory(hist, ws) ==
    [id \in (DOMAIN hist) \cup Ids(ws) |->
        IF id \in Ids(ws)
        THEN [current |-> Fill(OrElse(LastWith(ws, id).current, 0))]
        ELSE hist[id]]

(* ---------------- applyStabilization ---------------- *)
RECURSIVE SumSeq(_)
SumSeq(s) == IF s = << >> THEN 0 ELSE Add(s[1], SumSeq(Tail(s)))

Square(x) == Mul(x, x)

Deviations(s, avg) == [k \in 1..Len(s) |-> Square(Add(s[k], IF NotNumber(avg) THEN NaN ELSE 0 - avg))]

\* variance > tracker.varianceThreshold; a comparison with NaN is false
VarianceAbove(variance, threshold, quantity) ==
    \/ variance = Infinity
    \/ /\ ~NotNumber(variance)
       /\ IF quantity = "voltage" THEN variance > threshold * 10000
          ELSE variance \div 1000000 > threshold * 10000

\* the tracker after the call and the value returned
applyStabilization(tracker, componentId, quantity, newValue) ==
    LET key == componentId \o "-" \o quantity
        prev == tracker.prevValues
    IN  IF key \notin DOMAIN prev
        THEN [tracker |-> [tracker EXCEPT !.prevValues =
                              [k \in (DOMAIN prev) \cup {key} |->
                                  IF k = key THEN [values |-> << newValue >>, average |-> newValue,
                                                   smoothed |-> newValue]
                                  ELSE prev[k]]],
              out |-> newValue]
        ELSE LET pushed == Append(prev[key].values, newValue)
                 vals == IF Len(pushed) > tracker.maxSamples THEN Tail(pushed) ELSE pushed
                 average == Quot(SumSeq(vals), Len(vals))
                 smoothed == Quot(Add(Mul(tracker.smoothingFactor, newValue),
                                      Mul(100 - tracker.smoothingFactor, prev[key].smoothed)), 100)
                 variance == Quot(SumSeq(Deviations(vals, average)), Len(vals))
             IN  [tracker |-> [tracker EXCEPT !.prevValues[key] =
                                  [values |-> vals, average |-> average, smoothed |-> smoothed]],
                  out |-> IF VarianceAbove(variance, tracker.varianceThreshold, quantity)
                          THEN smoothed ELSE newValue]

(* ---------------- performTransientAnalysis (the later definition, which ---- *)
(* ---------------- replaces the earlier one of the same name) -------------- *)
\* component.value || d, where value may hold an object
ValueOr(c, d) == IF c.value.obj THEN JSObject ELSE OrElse(c.value.n, d)

\* first forEach: default the top-level parameter of the component's type
transientDefaults(c) ==
    CASE c.type = "voltage-source" /\ Falsy(c.voltage) -> [c EXCEPT !.voltage = ValueOr(c, 5000)]
      [] c.type = "current-source" /\ Falsy(c.current) -> [c EXCEPT !.current = ValueOr(c, 10000)]
      [] c.type = "resistor" /\ Falsy(c.resistance) -> [c EXCEPT !.resistance = ValueOr(c, 1000)]
      [] c.type = "capacitor" /\ Falsy(c.capacitance) -> [c EXCEPT !.capacitance = ValueOr(c, 1)]
      [] c.type = "inductor" /\ Falsy(c.inductance) -> [c EXCEPT !.inductance = ValueOr(c, 1)]
      [] OTHER -> c

DefinedOrZero(v) == IF v = Undefined THEN 0 ELSE v

\* component[quantity] = applyStabilization(component.id, quantity, newValue)
stabilise(c, tracker, quantity, newValue) ==
    LET Assign(s) == [c |-> IF quantity = "voltage" THEN [c EXCEPT !.voltage = s.out]
                            ELSE [c EXCEPT !.current = s.out],
                      tracker |-> s.tracker]
    IN  Assign(applyStabilization(tracker, c.id, quantity, newValue))

\* transientComponent with the sources passed through the filter as well
transientComponentFiltersSources(c, tracker) ==
    LET Ensure(r) == [c |-> [r.c EXCEPT !.voltage = DefinedOrZero(r.c.voltage),
                                        !.current = DefinedOrZero(r.c.current)],
                      tracker |-> r.tracker]
    IN  Ensure(CASE c.type = "resistor" ->
                      stabilise(c, tracker, "voltage",
                                Milli(OrElse(c.resistance, 1000), OrElse(c.current, 0)))
                 [] c.type = "capacitor" ->
                      stabilise(c, tracker, "voltage",
                                Add(OrElse(c.voltage, 0),
                                    Quot(Mul(OrElse(c.current, 0), 10), OrElse(c.capacitance, 1))))
                 [] c.type = "inductor" ->
                      stabilise(c, tracker, "current",
                                Add(OrElse(c.current, 0),
                                    Quot(Mul(OrElse(c.voltage, 0), 10000), OrElse(c.inductance, 1))))
                 [] c.type = "voltage-source" -> stabilise(c, tracker, "voltage", c.voltage)
                 [] c.type = "current-source" -> stabilise(c, tracker, "current", c.current)
                 [] OTHER -> [c |-> c, tracker |-> tracker])

\* second forEach, one component: the component and the tracker afterwards
transientComponent(c, tracker) ==
    LET Ensure(r) == [c |-> [r.c EXCEPT !.voltage = DefinedOrZero(r.c.voltage),
                                        !.current = DefinedOrZero(r.c.current)],
                      tracker |-> r.tracker]
    IN  Ensure(CASE c.type = "resistor" ->
                      \* voltageDrop = current * resistance
                      stabilise(c, tracker, "voltage",
                                Milli(OrElse(c.resistance, 1000), OrElse(c.current, 0)))
                 [] c.type = "capacitor" ->
                      \* newVoltage = (voltage || 0) + (current * 0.01) / capacitance
                      stabilise(c, tracker, "voltage",
                                Add(OrElse(c.voltage, 0),
                                    Quot(Mul(OrElse(c.current, 0), 10), OrElse(c.capacitance, 1))))
                 [] c.type = "inductor" ->
                      \* newCurrent = (current || 0) + (voltage * 0.01) / inductance
                      stabilise(c, tracker, "current",
                                Add(OrElse(c.current, 0),
                                    Quot(Mul(OrElse(c.voltage, 0), 10000), OrElse(c.inductance, 1))))
                 [] OTHER -> [c |-> c, tracker |-> tracker])

RECURSIVE transientFrom(_, _, _)
transientFrom(cs, tracker, i) ==
    LET Rest(r) == transientFrom([cs EXCEPT ![i] = r.c], r.tracker, i + 1)
    IN  IF i > Len(cs) THEN [components |-> cs, tracker |-> tracker]
        ELSE Rest(transientComponent(cs[i], tracker))

\* componentMap.get(id): the last component registered under the id
HasComponent(cs, id) == id \in Ids(cs)

transientWire(w, cs) ==
    IF HasComponent(cs, w.startComponent) /\ HasComponent(cs, w.endComponent)
    THEN [w EXCEPT !.voltage = OrElse(LastWith(cs, w.startComponent).voltage, 0),
                   !.current = OrElse(LastWith(cs, w.startComponent).current, 0)]
    ELSE w

\* the analysis never throws and returns {components, wires}
performTransientAnalysis(cs, ws, tracker) ==
    LET Result(r) ==
            [components |-> r.components,
             wires |-> [i \in 1..Len(ws) |-> transientWire(ws[i], r.components)],
             threw |-> FALSE, tracker |-> r.tracker, returns |-> TRUE, posted |-> << >>]
    IN  Result(transientFrom([i \in 1..Len(cs) |-> transientDefaults(cs[i])], tracker, 1))

(* ---------------- performDCAnalysis ---------------- *)
OfType(cs, t) == {i \in 1..Len(cs) : cs[i].type = t}

SetMax(S) == CHOOSE x \in S : \A y \in S : y <= x

\* reading c.properties.voltage.value throws a TypeError
NoVoltageProperty(c) == ~c.properties.has \/ c.properties.voltage = Undefined

NoResistanceProperty(c) == ~c.properties.has \/ c.properties.resistance = Undefined

\* V / R in uA, V * I in uW, I * R in mV
Amps(v, r) == Quot(Mul(v, 1000), r)

Power(v, i) == Milli(v, i)

Volts(i, r) == Milli(r, i)

\* the value a forEach that overwrites a variable leaves: f at the last
\* element of the set of indexes S, or the default d
LastOr(S, f, d) == IF S = {} THEN d ELSE f[SetMax(S)]

\* one iteration of the component loop: the component afterwards, and
\* whether the iteration threw (the assignments before the throw are kept)
dcComponent(cs, i) ==
    LET c == cs[i]
        resistors == OfType(cs, "resistor")
        sources == OfType(cs, "voltage-source")
        Resistance == [j \in resistors |-> cs[j].properties.resistance]
        SourceVoltage == [j \in sources |-> cs[j].properties.voltage]
    IN  CASE c.type = "voltage-source" ->
               IF ~c.values.has \/ NoVoltageProperty(c) THEN [c |-> c, threw |-> TRUE]
               ELSE LET v == c.properties.voltage
                        c1 == [c EXCEPT !.values.voltage = v]
                    IN  IF \E j \in resistors : NoResistanceProperty(cs[j])
                        THEN [c |-> c1, threw |-> TRUE]
                        ELSE LET totalResistance == LastOr(resistors, Resistance, 1000)
                                 current == Amps(v, totalResistance)
                             IN  [c |-> [c1 EXCEPT !.values.current = current,
                                                   !.values.power = Power(v, current)],
                                  threw |-> FALSE]
          [] c.type = "resistor" ->
               IF \/ \E j \in sources : NoVoltageProperty(cs[j])
                  \/ NoResistanceProperty(c)
                  \/ ~c.values.has
               THEN [c |-> c, threw |-> TRUE]
               ELSE LET sourceVoltage == LastOr(sources, SourceVoltage, 5000)
                        resistance == c.properties.resistance
                        current == Amps(sourceVoltage, resistance)
                        voltage == Volts(current, resistance)
                    IN  [c |-> [c EXCEPT !.values = Values(voltage, current, Power(voltage, current))],
                         threw |-> FALSE]
          [] c.type = "capacitor" ->
               IF ~c.values.has THEN [c |-> c, threw |-> TRUE]
               ELSE [c |-> [c EXCEPT !.values = ZeroValues], threw |-> FALSE]
          [] c.type = "inductor" ->
               IF ~c.values.has THEN [c |-> c, threw |-> TRUE]
               ELSE LET c1 == [c EXCEPT !.values.voltage = 0]
                        carrying == {j \in resistors : ~Falsy(cs[j].values.current)}
                        Current == [j \in carrying |-> cs[j].values.current]
                    IN  IF \E j \in resistors : ~cs[j].values.has
                        THEN [c |-> c1, threw |-> TRUE]
                        ELSE [c |-> [c1 EXCEPT !.values.current = LastOr(carrying, Current, 100000),
                                               !.values.power = 0],
                              threw |-> FALSE]
          [] OTHER ->
               IF ~c.values.has THEN [c |-> c, threw |-> TRUE]
               ELSE [c |-> [c EXCEPT !.values = Values(500, 10000, Power(500, 10000))],
                     threw |-> FALSE]

RECURSIVE dcFrom(_, _)
dcFrom(cs, i) ==
    LET Rest(r) == IF r.threw THEN [components |-> [cs EXCEPT ![i] = r.c], threw |-> TRUE]
                   ELSE dcFrom([cs EXCEPT ![i] = r.c], i + 1)
    IN  IF i > Len(cs) THEN [components |-> cs, threw |-> FALSE]
        ELSE Rest(dcComponent(cs, i))

\* the wire loop runs after a component loop that did not throw, so every
\* component has a values object
dcWire(w, cs) ==
    LET src == IF HasComponent(cs, w.source) THEN LastWith(cs, w.source).values.current ELSE 0
        tgt == IF HasComponent(cs, w.target) THEN LastWith(cs, w.target).values.current ELSE 0
    IN  IF ~Falsy(src)
        THEN [w EXCEPT !.current = src, !.voltage = LastWith(cs, w.source).values.voltage]
        ELSE IF ~Falsy(tgt)
             THEN [w EXCEPT !.current = tgt, !.voltage = LastWith(cs, w.target).values.voltage]
             ELSE [w EXCEPT !.current = 10000, !.voltage = 100]

\* the function has no return statement: the caller receives undefined
performDCAnalysis(cs, ws, tracker) ==
    LET Result(r) ==
            [components |-> r.components,
             wires |-> IF r.threw THEN ws ELSE [i \in 1..Len(ws) |-> dcWire(ws[i], r.components)],
             threw |-> r.threw, tracker |-> tracker, returns |-> FALSE, posted |-> << >>]
    IN  Result(dcFrom(cs, 1))

(* ---------------- performACAnalysis ---------------- *)
\* 1000 * sin(2 pi p / 100) for a quarter period
QuarterSine ==
    << 0, 63, 125, 187, 249, 309, 368, 426, 482, 536, 588, 637, 685, 729, 771, 809,
       844, 876, 905, 930, 951, 969, 982, 992, 998, 1000 >>

\* 1000 * sin(2 pi p / 100), p in hundredths of a period
Sine(p) ==
    LET q == p % 100
    IN  IF q <= 25 THEN QuarterSine[q + 1]
        ELSE IF q <= 50 THEN QuarterSine[50 - q + 1]
        ELSE IF q <= 75 THEN 0 - QuarterSine[q - 50 + 1]
        ELSE 0 - QuarterSine[100 - q + 1]

\* amplitude * Math.sin(2 * Math.PI * frequency * t + shift), shift in
\* hundredths of a period, t in 0.01 s
Waveform(amplitude, frequency, t, shift) ==
    IF NotNumber(amplitude) THEN NaN ELSE (amplitude * Sine(frequency * t + shift)) \div 1000

\* the largest r in lo..hi with r * r <= x, by bisection
RECURSIVE ISqrtFrom(_, _, _)
ISqrtFrom(x, lo, hi) ==
    IF lo >= hi THEN lo
    ELSE IF ((lo + hi + 1) \div 2) * ((lo + hi + 1) \div 2) > x
         THEN ISqrtFrom(x, lo, (lo + hi + 1) \div 2 - 1)
         ELSE ISqrtFrom(x, (lo + hi + 1) \div 2, hi)

\* Math.sqrt to the ohm; the search starts at a lower bound of the root
\* and ends at the largest root of a 32-bit number
ISqrt(x, lower) == ISqrtFrom(x, lower, 46340)

\* c.value?.value
ValueValue(c) == IF c.value.obj THEN c.value.n ELSE Undefined

Amplitude(c) == OrElse(ValueValue(c), OrElse(c.properties.voltage, 5000))

Frequency(c) == OrElse(c.properties.frequency, 1000)

Select(cs, t) == SelectSeq(cs, LAMBDA c : c.type = t)

\* Xc = 1 / (2 pi f C) in milliohm, C in uF
CapacitiveReactance(c, frequency) == 159155000 \div (frequency * OrElse(ValueValue(c), 10))

\* Xl = 2 pi f L in milliohm, L in mH
InductiveReactance(c, frequency) == (6283 * frequency * OrElse(ValueValue(c), 1)) \div 1000

\* amplitude / reactance in uA, reactance in milliohm
ReactiveCurrent(amplitude, reactance) ==
    IF NotNumber(amplitude) THEN NaN ELSE ((amplitude * 1000) \div Max(1, reactance)) * 1000

calculateCircuitImpedance(resistors, capacitors, inductors, frequency) ==
    LET R == [k \in 1..Len(resistors) |-> OrElse(ValueValue(resistors[k]), 1000)]
        Xc == [k \in 1..Len(capacitors) |-> CapacitiveReactance(capacitors[k], frequency)]
        Xl == [k \in 1..Len(inductors) |-> InductiveReactance(inductors[k], frequency)]
        totalResistance == 1000 + SumSeq(R)
        reactance == (SumSeq(Xl) - SumSeq(Xc)) \div 1000
    IN  ISqrt(totalResistance * totalResistance + reactance * reactance, totalResistance)

\* the frequency sweep of processComponents, in Hz
freqStep == 100

freqMax == 10000

freqFirst == 10

\* the frequencies f = 10; f <= freqMax; f += freqStep
SweepFrequencies == [k \in 1..((freqMax - freqFirst) \div freqStep + 1) |-> freqFirst + (k - 1) * freqStep]

\* the results array of processComponents, the data of frequency-response:
\* magnitude = amplitude / impedance in uA, as toFixed(6) rounds it
frequencyResponse(cs) ==
    LET Sweep(amplitude, resistors, capacitors, inductors) ==
            [k \in 1..Len(SweepFrequencies) |->
                [frequency |-> SweepFrequencies[k],
                 magnitude |-> Quot(Mul(amplitude, 1000),
                                    calculateCircuitImpedance(resistors, capacitors, inductors,
                                                              SweepFrequencies[k]))]]
    IN  Sweep(IF Select(cs, "voltage-source") = << >> THEN 5000
              ELSE Amplitude(Select(cs, "voltage-source")[1]),
              Select(cs, "resistor"), Select(cs, "capacitor"), Select(cs, "inductor"))

\* the voltageSources.forEach of performACAnalysis, one source
acSource(c, cs, t) ==
    IF ~c.values.has THEN [c |-> c, threw |-> TRUE]
    ELSE LET voltage == Waveform(Amplitude(c), Frequency(c), t, 0)
             impedance == calculateCircuitImpedance(Select(cs, "resistor"), Select(cs, "capacitor"),
                                                    Select(cs, "inductor"), Frequency(c))
             current == Amps(voltage, impedance)
         IN  [c |-> [c EXCEPT !.values = Values(voltage, current, Power(voltage, current))],
              threw |-> FALSE]

\* the three forEach loops of processComponents, one passive component;
\* src is the index of the first voltage source, 0 when there is none
acPassive(c, cs, src, t) ==
    LET frequency == IF src = 0 THEN 1000 ELSE Frequency(cs[src])
        amplitude == IF src = 0 THEN 5000 ELSE Amplitude(cs[src])
    IN  CASE c.type = "resistor" ->
               IF src = 0 \/ ~c.values.has THEN [c |-> c, threw |-> TRUE]
               ELSE LET current == cs[src].values.current
                        voltage == Volts(current, OrElse(ValueValue(c), 1000))
                    IN  [c |-> [c EXCEPT !.values = Values(voltage, current, Power(voltage, current))],
                         threw |-> FALSE]
          [] c.type = "capacitor" ->
               IF ~c.values.has THEN [c |-> c, threw |-> TRUE]
               ELSE LET current == ReactiveCurrent(amplitude, CapacitiveReactance(c, frequency))
                        voltage == Waveform(amplitude, frequency, t, 75)
                    IN  [c |-> [c EXCEPT !.values = Values(voltage, current, Power(voltage, current))],
                         threw |-> FALSE]
          [] c.type = "inductor" ->
               IF ~c.values.has THEN [c |-> c, threw |-> TRUE]
               ELSE LET current == ReactiveCurrent(amplitude, InductiveReactance(c, frequency))
                        voltage == Waveform(amplitude, frequency, t, 25)
                    IN  [c |-> [c EXCEPT !.values = Values(voltage, current, Power(voltage, current))],
                         threw |-> FALSE]
          [] OTHER -> [c |-> c, threw |-> FALSE]

\* the components are visited in the order of the source: all voltage
\* sources, then resistors, capacitors, inductors
acOrder(cs) ==
    LET Idx(t) == SelectSeq([i \in 1..Len(cs) |-> i], LAMBDA i : cs[i].type = t)
    IN  Idx("voltage-source") \o Idx("resistor") \o Idx("capacitor") \o Idx("inductor")

FirstSource(cs) ==
    IF OfType(cs, "voltage-source") = {} THEN 0
    ELSE CHOOSE i \in OfType(cs, "voltage-source") : \A j \in OfType(cs, "voltage-source") : i <= j

RECURSIVE acFrom(_, _, _, _)
acFrom(cs, order, k, t) ==
    LET Rest(i, r) == IF r.threw THEN [components |-> [cs EXCEPT ![i] = r.c], threw |-> TRUE]
                      ELSE acFrom([cs EXCEPT ![i] = r.c], order, k + 1, t)
        Visit(i) == Rest(i, IF cs[i].type = "voltage-source" THEN acSource(cs[i], cs, t)
                            ELSE acPassive(cs[i], cs, FirstSource(cs), t))
    IN  IF k > Len(order) THEN [components |-> cs, threw |-> FALSE]
        ELSE Visit(order[k])

\* updateACWireValues, one wire
acWire(w, cs) ==
    IF HasComponent(cs, w.source) /\ LastWith(cs, w.source).values.has
    THEN [w EXCEPT !.current = OrElse(LastWith(cs, w.source).values.current, 0),
                   !.voltage = OrElse(LastWith(cs, w.source).values.voltage, 0)]
    ELSE IF HasComponent(cs, w.target) /\ LastWith(cs, w.target).values.has
         THEN [w EXCEPT !.current = OrElse(LastWith(cs, w.target).values.current, 0),
                        !.voltage = OrElse(LastWith(cs, w.target).values.voltage, 0)]
         ELSE w

\* posts frequency-response as its last statement and returns undefined
performACAnalysis(cs, ws, tracker, t) ==
    LET Result(r) ==
            [components |-> r.components,
             wires |-> IF r.threw THEN ws ELSE [i \in 1..Len(ws) |-> acWire(ws[i], r.components)],
             threw |-> r.threw, tracker |-> tracker, returns |-> FALSE,
             posted |-> IF r.threw THEN << >> ELSE << Bare("frequency-response") >>]
    IN  Result(acFrom(cs, acOrder(cs), 1, t))

\* the switch on simulationState.type, with transient as the default
analyse(mode, cs, ws, tracker, t) ==
    CASE mode = "dc" -> performDCAnalysis(cs, ws, tracker)
      [] mode = "ac" -> performACAnalysis(cs, ws, tracker, t)
      [] OTHER -> performTransientAnalysis(cs, ws, tracker)

(* ---------------- timers ---------------- *)
\* Math.max(10, 50 / speed), in ms
Interval(s) == IF s < 0 THEN 10 ELSE Max(10, 50 \div s)

Timer(id, loop, s) == [id |-> id, loop |-> loop, interval |-> Interval(s)]

\* clearInterval(simulationInterval)
clearInterval(ts, handle) == {t \in ts : t.id # handle.id}

(* ---------------- startSimulation ---------------- *)
\* the stability tracker as startSimulation configures it for the mode
configureTracker(tracker, simulationType) ==
    CASE simulationType = "ac" -> [tracker EXCEPT !.maxSamples = 10, !.smoothingFactor = 80]
      [] simulationType = "dc" -> [tracker EXCEPT !.maxSamples = 3, !.smoothingFactor = 50]
      [] OTHER -> tracker

startSimulation(data) ==
    /\ nextTimerId <= MaxTimers
    /\ components' = data.components
    /\ wires' = data.wires
    /\ type' = data.simulationType
    /\ speed' = OrElse(data.simulationSpeed, 1)
    /\ time' = 0
    /\ running' = TRUE
    /\ iterationCount' = 0
    /\ componentValueHistory' = initComponentHistory(EmptyHistory, data.components)
    /\ wireValueHistory' = initWireHistory(EmptyHistory, data.wires)
    /\ stabilized' = FALSE
    /\ stabilityTracker' = configureTracker(stabilityTracker, data.simulationType)
    \* the handle of the timer installed before is overwritten, not cleared
    /\ timers' = timers \cup {Timer(nextTimerId, "start", speed')}
    /\ simulationInterval' = Handle(nextTimerId)
    /\ nextTimerId' = nextTimerId + 1
    /\ outbox' = << Bare("simulation-started") >>
    /\ lastOp' = "start-simulation"
    /\ threw' = FALSE
    /\ lifecycle' = "start-simulation"
    /\ UNCHANGED editorState

(* ---------------- performSimulationStep and recoverFromError ---------------- *)
\* validateComponent returns true for every component and validateWire
\* changes nothing it rejects, so recovery resets the counters and refills
\* the history of the present components and wires
performSimulationStep ==
    \E r \in {analyse(type, [i \in 1..Len(components) |-> validateComponent(components[i])],
                       [i \in 1..Len(wires) |-> validateWire(wires[i])], stabilityTracker, time)} :
        /\ stabilityTracker' = r.tracker
        /\ UNCHANGED << running, speed, type, time >>
        /\ IF r.threw
           THEN \* catch: report, then recoverFromError()
                /\ components' = r.components
                /\ wires' = r.wires
                /\ outbox' = r.posted \o << Message("simulation-error", << >>, << >>, time) >>
                /\ stabilized' = FALSE
                /\ iterationCount' = 0
                /\ componentValueHistory' = initComponentHistory(componentValueHistory, r.components)
                /\ wireValueHistory' = initWireHistory(wireValueHistory, r.wires)
           ELSE /\ iterationCount' = iterationCount + 1
                /\ UNCHANGED << stabilized, componentValueHistory, wireValueHistory >>
                /\ IF r.returns
                   THEN /\ components' = [i \in 1..Len(r.components) |->
                                              validateComponent(r.components[i])]
                        /\ wires' = [i \in 1..Len(r.wires) |-> validateWire(r.wires[i])]
                        /\ outbox' = r.posted \o << Message("simulation-update",
                                                            ComponentSnapshot(components'),
                                                            WireSnapshot(wires'), time) >>
                   ELSE \* results is undefined: "Invalid simulation results"
                        /\ components' = r.components
                        /\ wires' = r.wires
                        /\ outbox' = r.posted

\* the callback installed by startSimulation
TickStart(t) ==
    /\ t.loop = "start"
    /\ iterationCount < MaxIterations
    /\ threw' = FALSE
    /\ UNCHANGED << simulationInterval, timers, nextTimerId, lifecycle, editorState >>
    /\ IF running
       THEN /\ performSimulationStep
            /\ lastOp' = "step-start"
       ELSE /\ UNCHANGED simState
            /\ outbox' = << >>
            /\ lastOp' = "tick-idle"

\* the callback installed by updateSimulationSpeed: no try/catch; a throw
\* of the analysis leaves the callback before time is advanced
TickSpeed(t) ==
    /\ t.loop = "speed"
    /\ time + speed <= MaxTime
    /\ time + speed >= 0 - MaxTime
    /\ UNCHANGED << simulationInterval, timers, nextTimerId, lifecycle, editorState >>
    /\ IF ~running
       THEN /\ UNCHANGED simState
            /\ outbox' = << >>
            /\ threw' = FALSE
            /\ lastOp' = "tick-idle"
       ELSE \E r \in {analyse(type, components, wires, stabilityTracker, time)} :
                /\ components' = r.components
                /\ wires' = r.wires
                /\ stabilityTracker' = r.tracker
                /\ threw' = r.threw
                /\ lastOp' = "step-speed"
                /\ time' = IF r.threw THEN time ELSE time + speed
                /\ outbox' = IF r.threw THEN r.posted
                             ELSE r.posted \o << Message("simulation-update",
                                                         ComponentSnapshot(r.components),
                                                         WireSnapshot(r.wires), time') >>
                /\ UNCHANGED << running, speed, type, iterationCount, componentValueHistory,
                                wireValueHistory, stabilized >>

(* ---------------- pauseSimulation ---------------- *)
\* pauseSimulation without the assignment running = false
pauseSimulationKeepsRunning ==
    /\ outbox' = << Bare("simulation-paused") >>
    /\ lastOp' = "pause-simulation"
    /\ threw' = FALSE
    /\ lifecycle' = "pause-simulation"
    /\ UNCHANGED editorState
    /\ UNCHANGED << running, speed, type, components, wires, time, iterationCount,
                    componentValueHistory, wireValueHistory, stabilized, stabilityTracker,
                    simulationInterval, timers, nextTimerId >>

pauseSimulation ==
    /\ running' = FALSE
    /\ outbox' = << Bare("simulation-paused") >>
    /\ lastOp' = "pause-simulation"
    /\ threw' = FALSE
    /\ lifecycle' = "pause-simulation"
    /\ UNCHANGED editorState
    /\ UNCHANGED << speed, type, components, wires, time, iterationCount, componentValueHistory,
                    wireValueHistory, stabilized, stabilityTracker, simulationInterval, timers,
                    nextTimerId >>

(* ---------------- stopSimulation and resetSimulationValues ---------------- *)
resetSimulationValues(cs) == [i \in 1..Len(cs) |-> [cs[i] EXCEPT !.values = ZeroValues]]

resetWires(ws) == [i \in 1..Len(ws) |-> [ws[i] EXCEPT !.current = 0, !.voltage = 0]]

stopSimulation ==
    /\ running' = FALSE
    /\ lastOp' = "stop-simulation"
    /\ lifecycle' = "stop-simulation"
    /\ UNCHANGED editorState
    /\ UNCHANGED << speed, type, time, iterationCount, componentValueHistory, wireValueHistory,
                    stabilized, stabilityTracker, nextTimerId >>
    /\ IF simulationInterval = Undeclared
       THEN \* "if (simulationInterval)" reads an identifier that does not
            \* exist: ReferenceError, the rest of the handler is skipped
            /\ threw' = TRUE
            /\ outbox' = << >>
            /\ UNCHANGED << components, wires, simulationInterval, timers >>
       ELSE /\ threw' = FALSE
            /\ timers' = IF simulationInterval = NullHandle THEN timers
                         ELSE clearInterval(timers, simulationInterval)
            /\ simulationInterval' = NullHandle
            /\ components' = resetSimulationValues(components)
            /\ wires' = resetWires(wires)
            /\ outbox' = << Message("simulation-stopped", ComponentSnapshot(components'),
                                    WireSnapshot(wires'), 0) >>

(* ---------------- updateSimulationSpeed ---------------- *)
UpdateSpeeds == {0 - 1, 0, 2}

\* updateSimulationSpeed with "if (speed <= 0) return" replaced by a reset of
\* the speed to its default
updateSimulationSpeedResets(s) ==
    /\ lastOp' = "update-speed"
    /\ outbox' = << >>
    /\ threw' = FALSE
    /\ UNCHANGED << running, type, components, wires, time, iterationCount, componentValueHistory,
                    wireValueHistory, stabilized, stabilityTracker, lifecycle, editorState >>
    /\ IF s <= 0
       THEN /\ speed' = 1
            /\ UNCHANGED << simulationInterval, timers, nextTimerId >>
       ELSE /\ speed' = s
            /\ IF running /\ simulationInterval.state = "timer"
               THEN /\ nextTimerId <= MaxTimers
                    /\ timers' = clearInterval(timers, simulationInterval)
                                    \cup {Timer(nextTimerId, "speed", s)}
                    /\ simulationInterval' = Handle(nextTimerId)
                    /\ nextTimerId' = nextTimerId + 1
               ELSE UNCHANGED << simulationInterval, timers, nextTimerId >>

updateSimulationSpeed(s) ==
    /\ lastOp' = "update-speed"
    /\ outbox' = << >>
    /\ threw' = FALSE
    /\ UNCHANGED << running, type, components, wires, time, iterationCount, componentValueHistory,
                    wireValueHistory, stabilized, stabilityTracker, lifecycle, editorState >>
    /\ IF s <= 0
       THEN UNCHANGED << speed, simulationInterval, timers, nextTimerId >>
       ELSE /\ speed' = s
            \* running is true only after a start, which assigned the handle
            /\ IF running /\ simulationInterval.state = "timer"
               THEN /\ nextTimerId <= MaxTimers
                    /\ timers' = clearInterval(timers, simulationInterval)
                                    \cup {Timer(nextTimerId, "speed", s)}
                    /\ simulationInterval' = Handle(nextTimerId)
                    /\ nextTimerId' = nextTimerId + 1
               ELSE UNCHANGED << simulationInterval, timers, nextTimerId >>

(* ---------------- updateComponent ---------------- *)
UpdateIds == {"v3", "none"}

\* the parameters the editor can name
UpdateProperties == {"value", "voltage"}

UpdateValues == {2000}

Field(c, property) ==
    CASE property = "voltage" -> c.voltage
      [] property = "current" -> c.current
      [] property = "resistance" -> c.resistance
      [] property = "capacitance" -> c.capacitance
      [] property = "inductance" -> c.inductance

SetField(c, property, v) ==
    CASE property = "voltage" -> [c EXCEPT !.voltage = v]
      [] property = "current" -> [c EXCEPT !.current = v]
      [] property = "resistance" -> [c EXCEPT !.resistance = v]
      [] property = "capacitance" -> [c EXCEPT !.capacitance = v]
      [] property = "inductance" -> [c EXCEPT !.inductance = v]

\* the component after the assignment of the property
assignProperty(c, property, v) ==
    IF property = "value" THEN [c EXCEPT !.value = [obj |-> TRUE, n |-> v]]
    ELSE IF Field(c, property) # Undefined THEN SetField(c, property, v)
    ELSE c

\* components.find(c => c.id === componentId)
FindIndex(cs, id) == CHOOSE i \in 1..Len(cs) : cs[i].id = id /\ \A j \in 1..(i - 1) : cs[j].id # id

updateComponent(componentId, property, v) ==
    /\ lastOp' = "update-component"
    /\ UNCHANGED << running, speed, type, time, iterationCount, componentValueHistory,
                    wireValueHistory, stabilized, simulationInterval, timers, nextTimerId,
                    lifecycle, editorState >>
    /\ IF ~HasComponent(components, componentId)
       THEN /\ UNCHANGED << components, wires, stabilityTracker >>
            /\ outbox' = << >>
            /\ threw' = FALSE
       ELSE \E i \in {FindIndex(components, componentId)} :
            \E updated \in {[components EXCEPT ![i] = assignProperty(components[i], property, v)]} :
                IF running
                THEN \* recompute at once; nothing catches a throw here
                     \E r \in {analyse(type, updated, wires, stabilityTracker, time)} :
                         /\ components' = r.components
                         /\ wires' = r.wires
                         /\ stabilityTracker' = r.tracker
                         /\ outbox' = r.posted
                         /\ threw' = r.threw
                ELSE /\ components' = updated
                     /\ UNCHANGED << wires, stabilityTracker >>
                     /\ outbox' = << >>
                     /\ threw' = FALSE

(* ---------------- updateAccuracy ---------------- *)
NoSettings == [present |-> FALSE, accuracyLevel |-> "", stabilityFactor |-> 0]

\* stabilityFactor 0 stands for a settings object without the field
AccuracySettings ==
    {NoSettings} \cup
    { [present |-> TRUE, accuracyLevel |-> "low", stabilityFactor |-> 0] }

\* accuracyPreset with the variance threshold of 'medium' under 'high'
accuracyPresetHighAsMedium(tracker, level) ==
    CASE level = "low" ->
           [tracker EXCEPT !.maxSamples = 3, !.smoothingFactor = 50, !.varianceThreshold = 20]
      [] level = "medium" ->
           [tracker EXCEPT !.maxSamples = 5, !.smoothingFactor = 70, !.varianceThreshold = 10]
      [] level = "high" ->
           [tracker EXCEPT !.maxSamples = 8, !.smoothingFactor = 80, !.varianceThreshold = 10]
      [] level = "ultra" ->
           [tracker EXCEPT !.maxSamples = 12, !.smoothingFactor = 90, !.varianceThreshold = 2]
      [] OTHER -> tracker

accuracyPreset(tracker, level) ==
    CASE level = "low" ->
           [tracker EXCEPT !.maxSamples = 3, !.smoothingFactor = 50, !.varianceThreshold = 20]
      [] level = "medium" ->
           [tracker EXCEPT !.maxSamples = 5, !.smoothingFactor = 70, !.varianceThreshold = 10]
      [] level = "high" ->
           [tracker EXCEPT !.maxSamples = 8, !.smoothingFactor = 80, !.varianceThreshold = 5]
      [] level = "ultra" ->
           [tracker EXCEPT !.maxSamples = 12, !.smoothingFactor = 90, !.varianceThreshold = 2]
      [] OTHER -> tracker

\* Math.max(3, Math.round(factor * 1.2)) and 0.5 + factor * 0.05
stabilityFactorTuning(tracker, factor) ==
    IF factor >= 1 /\ factor <= 10
    THEN [tracker EXCEPT !.maxSamples = Max(3, (factor * 12 + 5) \div 10),
                         !.smoothingFactor = 50 + factor * 5]
    ELSE tracker

updateAccuracy(settings) ==
    /\ lastOp' = "update-accuracy"
    /\ outbox' = << >>
    /\ threw' = FALSE
    /\ stabilityTracker' =
          IF ~settings.present THEN stabilityTracker
          ELSE stabilityFactorTuning(accuracyPreset(stabilityTracker, settings.accuracyLevel),
                                     settings.stabilityFactor)
    /\ UNCHANGED << running, speed, type, components, wires, time, iterationCount,
                    componentValueHistory, wireValueHistory, stabilized, simulationInterval,
                    timers, nextTimerId, lifecycle, editorState >>

(* ---------------- self.onmessage ---------------- *)
\* message types without a case of the switch: console.warn, nothing else
UnknownTypes == {"resume-simulation"}

unknownMessage(t) ==
    /\ lastOp' = t
    /\ outbox' = << >>
    /\ threw' = FALSE
    /\ UNCHANGED << simState, simulationInterval, timers, nextTimerId, lifecycle, editorState >>

onmessage ==
    \/ \E data \in StartMessages : startSimulation(data)
    \/ pauseSimulation
    \/ stopSimulation
    \/ \E s \in UpdateSpeeds : updateSimulationSpeed(s)
    \/ \E id \in UpdateIds, p \in UpdateProperties, v \in UpdateValues : updateComponent(id, p, v)
    \/ \E settings \in AccuracySettings : updateAccuracy(settings)
    \/ \E t \in UnknownTypes : unknownMessage(t)

Tick == \E t \in timers : TickStart(t) \/ TickSpeed(t)

Next == onmessage \/ Tick

Spec == Init /\ [][Next]_vars

(* ---------------- the accuracy settings alone ---------------- *)
\* every preset, a level without a preset, with and without a stability
\* factor, and a message without settings
AllAccuracySettings ==
    {NoSettings} \cup
    { [present |-> TRUE, accuracyLevel |-> level, stabilityFactor |-> factor] :
          level \in {"low", "medium", "high", "ultra", "custom"}, factor \in {0, 5} }

AccuracyStarts ==
    {StartData(CircuitCharging, "tran", 0), StartData(CircuitRC, "ac", 2),
     StartData(CircuitSeries, "dc", 0)}

\* the messages that write the tuning of the stability tracker
AccuracyNext ==
    \/ \E data \in AccuracyStarts : startSimulation(data)
    \/ stopSimulation
    \/ \E settings \in AllAccuracySettings : updateAccuracy(settings)

AccuracySpec == Init /\ [][AccuracyNext]_vars

(* ---------------- updateSimulationComponents ---------------- *)
\* the circuits a caller hands over; no case of self.onmessage calls the
\* function, so it is not part of Next
TopologyUpdates == {CircuitNoSource, CircuitEmpty}

\* an empty array is truthy: it replaces the components like any other
updateSimulationComponents(cs, ws) ==
    /\ components' = cs
    /\ wires' = ws
    /\ componentValueHistory' = initComponentHistory(componentValueHistory, cs)
    /\ wireValueHistory' = initWireHistory(wireValueHistory, ws)
    /\ stabilized' = FALSE
    /\ iterationCount' = 0
    /\ outbox' = << >>
    /\ lastOp' = "update-components"
    /\ threw' = FALSE
    /\ UNCHANGED << running, speed, type, time, stabilityTracker, simulationInterval, timers,
                    nextTimerId, lifecycle, editorState >>

\* the runs the caller edits
TopologyStarts == {StartData(CircuitCharging, "tran", 0), StartData(CircuitRC, "ac", 2)}

\* the worker with a caller of updateSimulationComponents next to the
\* start, stop and speed messages and the timers
TopologyNext ==
    \/ \E data \in TopologyStarts : startSimulation(data)
    \/ stopSimulation
    \/ \E s \in UpdateSpeeds : updateSimulationSpeed(s)
    \/ Tick
    \/ \E data \in TopologyUpdates : updateSimulationComponents(data.components, data.wires)

TopologySpec == Init /\ [][TopologyNext]_vars

(* ======================= the circuit editor ======================= *)
MaxComponents == 3    \* components constructed
MaxWires == 2         \* wires drawn

workerState == << simState, simulationInterval, timers, nextTimerId, outbox, lastOp, threw,
                  lifecycle >>

Point(x, y) == [x |-> x, y |-> y]

\* a wire end bound to no component: startConnection or endConnection is null
NoConnection == [componentId |-> 0, connectionPointIndex |-> 0 - 1]

Connection(id, index) == [componentId |-> id, connectionPointIndex |-> index]

\* new Component(type, x, y): the fields the wire code reads; the id
\* is the key the component is stored under
Component(t, x, y) == [type |-> t, x |-> x, y |-> y]

\* the connection points of a component, relative to its position
createConnectionPoints(t) ==
    CASE t \in {"resistor", "capacitor", "inductor", "diode"} -> << Point(0 - 20, 0), Point(20, 0) >>
      [] t \in {"voltage-source", "current-source"} -> << Point(0, 0 - 20), Point(0, 20) >>
      [] t = "transistor" -> << Point(0 - 20, 0), Point(20, 0 - 10), Point(20, 10) >>
      [] OTHER -> << >>

\* the indices of component.connectionPoints, counted from 0
Indices(c) == 0..(Len(createConnectionPoints(c.type)) - 1)

\* component.x + connectionPoint.x, component.y + connectionPoint.y
Terminal(c, index) ==
    Point(c.x + createConnectionPoints(c.type)[index + 1].x,
          c.y + createConnectionPoints(c.type)[index + 1].y)

\* the square of the distance Math.sqrt(dx^2 + dy^2)
DistanceSquared(p, q) == (p.x - q.x) * (p.x - q.x) + (p.y - q.y) * (p.y - q.y)

\* snapToConnectionPoints snaps below this distance
snapDistance == 20

\* repairBrokenConnections repairs below this distance
tolerance == 20

WireEnd(p, conn) == [point |-> p, connection |-> conn]

\* the wire end on the connection point conn names
EndAt(comps, conn) ==
    WireEnd(Terminal(comps[conn.componentId], conn.connectionPointIndex), conn)

\* the connection points of the components comps within reach of point p
Near(comps, p, reach) ==
    {conn \in {Connection(id, index) : id \in DOMAIN comps, index \in 0..2} :
        /\ conn.connectionPointIndex \in Indices(comps[conn.componentId])
        /\ DistanceSquared(Terminal(comps[conn.componentId], conn.connectionPointIndex), p)
               < reach * reach}

\* the loops keep the first of the closest points: components in the
\* order of the Map, which is the order of creation, then points by index
Closest(comps, p, near) ==
    CHOOSE a \in near : \A b \in near :
        \/ DistanceSquared(EndAt(comps, a).point, p) < DistanceSquared(EndAt(comps, b).point, p)
        \/ /\ DistanceSquared(EndAt(comps, a).point, p) = DistanceSquared(EndAt(comps, b).point, p)
           /\ \/ a.componentId < b.componentId
              \/ /\ a.componentId = b.componentId
                 /\ a.connectionPointIndex <= b.connectionPointIndex

snapToConnectionPoints(p, comps) ==
    IF Near(comps, p, snapDistance) = {} THEN WireEnd(p, NoConnection)
    ELSE EndAt(comps, Closest(comps, p, Near(comps, p, snapDistance)))

\* new Wire(start, end) as createWire stores it; findComponentConnections
\* looks within 5 of an end that did not snap within 20 and finds nothing
EditorWire(start, end) ==
    [startPoint |-> start.point, endPoint |-> end.point,
     startConnection |-> start.connection, endConnection |-> end.connection]

Put(map, key, v) == [k \in DOMAIN map \cup {key} |-> IF k = key THEN v ELSE map[k]]

\* componentManager.createComponent(type, x, y)
createComponent(t, at) ==
    /\ createdComponents < MaxComponents
    /\ createdComponents' = createdComponents + 1
    /\ managerComponents' = Put(managerComponents, createdComponents + 1, Component(t, at.x, at.y))
    /\ editorOp' = "createComponent"
    /\ UNCHANGED << managerWires, wireIdCounter, workerState >>

\* right button pressed at down and released at up: handleWireStart and
\* handleWireEnd snap both positions, and createWire stores the wire
\* unless both ends fall on the same point
handleWireEnd(down, up) ==
    /\ wireIdCounter < MaxWires
    /\ editorOp' = "handleWireEnd"
    /\ UNCHANGED << managerComponents, createdComponents, workerState >>
    /\ \E start \in {snapToConnectionPoints(down, managerComponents)},
          end \in {snapToConnectionPoints(up, managerComponents)} :
           IF start.point # end.point
           THEN /\ managerWires' = Put(managerWires, wireIdCounter, EditorWire(start, end))
                /\ wireIdCounter' = wireIdCounter + 1
           ELSE UNCHANGED << managerWires, wireIdCounter >>

\* the editor removes one component; the wires stay as they are
deleteComponent(id) ==
    /\ id \in DOMAIN managerComponents
    /\ managerComponents' = [k \in DOMAIN managerComponents \ {id} |-> managerComponents[k]]
    /\ editorOp' = "deleteComponent"
    /\ UNCHANGED << managerWires, wireIdCounter, createdComponents, workerState >>

\* the New Circuit button
clearCircuit ==
    /\ managerComponents' = EmptyHistory
    /\ managerWires' = EmptyHistory
    /\ editorOp' = "clearCircuit"
    /\ UNCHANGED << wireIdCounter, createdComponents, workerState >>

\* one entry of brokenConnections: the component is looked up under the
\* id the wire end still holds
repairBrokenConnections(end, comps) ==
    IF end.connection.componentId \notin DOMAIN comps THEN end
    ELSE LET Repair(c, near) ==
                 IF near = {} THEN end ELSE EndAt(comps, Closest(comps, end.point, near))
         IN  Repair(comps[end.connection.componentId],
                    {conn \in Near(comps, end.point, tolerance) :
                        conn.componentId = end.connection.componentId})

\* one end of one wire in updateWireConnections
updateWireEnd(end, comps) ==
    IF end.connection = NoConnection THEN end
    ELSE IF /\ end.connection.componentId \in DOMAIN comps
            /\ end.connection.connectionPointIndex \in Indices(comps[end.connection.componentId])
         THEN EndAt(comps, end.connection)
         ELSE repairBrokenConnections(end, comps)

updateWireConnections ==
    /\ managerWires' =
          [w \in DOMAIN managerWires |->
              EditorWire(updateWireEnd(WireEnd(managerWires[w].startPoint,
                                               managerWires[w].startConnection),
                                       managerComponents),
                         updateWireEnd(WireEnd(managerWires[w].endPoint,
                                               managerWires[w].endConnection),
                                       managerComponents))]
    /\ editorOp' = "updateWireConnections"
    /\ UNCHANGED << managerComponents, wireIdCounter, createdComponents, workerState >>

ComponentTypes == {"resistor", "voltage-source"}

ComponentPositions == {Point(100, 100), Point(110, 100)}

\* where the pointer presses and releases
PointerPositions == {Point(118, 102), Point(300, 100)}

EditorNext ==
    \/ \E t \in ComponentTypes, at \in ComponentPositions : createComponent(t, at)
    \/ \E down \in PointerPositions, up \in PointerPositions : handleWireEnd(down, up)
    \/ \E id \in 1..MaxComponents : deleteComponent(id)
    \/ clearCircuit
    \/ updateWireConnections

EditorSpec == Init /\ [][EditorNext]_vars

(* ======================= properties ======================= *)
\* the last callback performed a simulation step
Stepped == lastOp \in {"step-start", "step-speed"}

\* the worker was paused and neither started nor stopped since
Paused == lifecycle = "pause-simulation"

Posted(t) == {k \in 1..Len(outbox) : outbox[k].type = t}

ComponentValues == [i \in 1..Len(components) |-> components[i].values]

WireValues == WireSnapshot(wires)

AllZero ==
    /\ \A i \in 1..Len(components) : components[i].values = ZeroValues
    /\ \A i \in 1..Len(wires) : wires[i].current = 0 /\ wires[i].voltage = 0

\* C1: after stop-simulation is handled, from any prior state, every
\* component has values {0, 0, 0}, every wire has current 0 and voltage 0,
\* running is false and simulation-stopped with that snapshot was posted.
C1_StopZeroesAndReports ==
    lastOp = "stop-simulation" =>
        /\ AllZero
        /\ ~running
        /\ \E k \in Posted("simulation-stopped") :
              /\ outbox[k].components = ComponentSnapshot(components)
              /\ outbox[k].wires = WireSnapshot(wires)

\* C2: every periodic step executed while running increases time by
\* exactly 0.01 * speed, whichever timer loop drives it.
C2_StepAdvancesTime ==
    [][lastOp' \in {"step-start", "step-speed"} => time' = time + speed]_vars

\* the step ran to its end without an exception, caught or not
Completed == Stepped /\ ~threw /\ Posted("simulation-error") = {}

\* C3: every completed step posts exactly one simulation-update carrying
\* the components, wires and time of that step, in every analysis mode.
C3_StepPostsUpdate ==
    Completed =>
        /\ Cardinality(Posted("simulation-update")) = 1
        /\ \A k \in Posted("simulation-update") :
              /\ outbox[k].components = ComponentSnapshot(components)
              /\ outbox[k].wires = WireSnapshot(wires)
              /\ outbox[k].time = time

C5_ResumeKeepsState ==
    [][(Paused /\ lastOp' = "resume-simulation") =>
          /\ running'
          /\ time' = time
          /\ componentValueHistory' = componentValueHistory
          /\ wireValueHistory' = wireValueHistory
          /\ stabilityTracker'.prevValues = stabilityTracker.prevValues]_vars

\* C6: at most one periodic step timer is live at any time, and none
\* after stop-simulation until the next start-simulation.
C6_AtMostOneTimer ==
    /\ Cardinality(timers) <= 1
    /\ (lifecycle = "stop-simulation" => timers = {})

\* C7: after stop-simulation no per-component or per-wire history entry
\* remains in componentValueHistory, wireValueHistory or prevValues.
C7_StopClearsHistory ==
    lastOp = "stop-simulation" =>
        /\ DOMAIN componentValueHistory = {}
        /\ DOMAIN wireValueHistory = {}
        /\ DOMAIN stabilityTracker.prevValues = {}

\* the analysis of the last step threw
StepThrew == Stepped /\ (threw \/ Posted("simulation-error") # {})

\* C8: when the computation of a step throws, the driver catches the
\* exception, posts exactly one simulation-error with the current time,
\* running stays true and the timer stays live, in every step loop.
C8_ThrowIsReported ==
    StepThrew =>
        /\ ~threw
        /\ Cardinality(Posted("simulation-error")) = 1
        /\ \A k \in Posted("simulation-error") : outbox[k].time = time
        /\ running
        /\ timers # {}

\* C9: in DC mode, after every step, every capacitor has values
\* {0, 0, 0} and every inductor has values.voltage = 0.
C9_DCSteadyState ==
    (Stepped /\ type = "dc") =>
        \A i \in 1..Len(components) :
            /\ (components[i].type = "capacitor" => components[i].values = ZeroValues)
            /\ (components[i].type = "inductor" => components[i].values.voltage = 0)

\* C10: after every step, in every analysis mode, a ground component has
\* values.voltage = 0.
C10_GroundIsZero ==
    Stepped =>
        \A i \in 1..Len(components) :
            components[i].type = "ground" => components[i].values.voltage = 0

\* a number of magnitude at most limit
Within(v, limit) == ~NotNumber(v) /\ v <= limit /\ v >= 0 - limit

\* C11: after every step every resistor and capacitor has |voltage| <= 100 V
\* and |current| <= 1 A in values and in the top-level voltage and current
\* the transient analysis stores.
C11_OutputsAreClamped ==
    Stepped =>
        \A i \in 1..Len(components) :
            components[i].type \in {"resistor", "capacitor"} =>
                /\ components[i].values.has =>
                       /\ Within(components[i].values.voltage, 100000)
                       /\ Within(components[i].values.current, 1000000)
                /\ components[i].voltage # Undefined => Within(components[i].voltage, 100000)
                /\ components[i].current # Undefined => Within(components[i].current, 1000000)

\* NaN, Infinity or -Infinity
NonFinite(v) == v \in {NaN, Infinity}

\* C13: after a step no component's values.voltage, values.current or
\* values.power and no wire's current or voltage is NaN or infinite, in
\* any mode and for any numeric parameters.
C13_NoNonFiniteValues ==
    Stepped =>
        /\ \A i \in 1..Len(components) :
              components[i].values.has =>
                  /\ ~NonFinite(components[i].values.voltage)
                  /\ ~NonFinite(components[i].values.current)
                  /\ ~NonFinite(components[i].values.power)
        /\ \A i \in 1..Len(wires) :
              ~NonFinite(wires[i].current) /\ ~NonFinite(wires[i].voltage)

\* the places the analyses read the parameter of the component's type from
ParameterReadings(c) ==
    CASE c.type = "resistor" -> {c.resistance} \cup (IF c.properties.has THEN {c.properties.resistance} ELSE {})
      [] c.type = "capacitor" -> {c.capacitance}
      [] c.type = "inductor" -> {c.inductance}
      [] c.type = "voltage-source" -> {c.voltage} \cup (IF c.properties.has THEN {c.properties.voltage} ELSE {})
      [] c.type = "current-source" -> {c.current}
      [] OTHER -> {}

\* C14: a step leaves no component with a non-finite parameter of its
\* type: the parameter was replaced by the default before the analysis
\* read it, in the top-level field and in properties alike.
C14_InvalidParameterReplaced ==
    Stepped =>
        \A i \in 1..Len(components) :
            \A v \in ParameterReadings(components[i]) : ~NonFinite(v)

IsSource(c) == c.type \in {"voltage-source", "current-source"}

\* the keys applyStabilization files the component's samples under
FilterKeys(c) == {c.id \o "-voltage", c.id \o "-current"}

\* C12: a completed step stores for every source the raw value computed
\* for it in that step, and no source ever has an entry in the filter
\* history: the stability filter never acts on a source.
C12_SourcesBypassFilter ==
    [][/\ \A i \in 1..Len(components') :
             IsSource(components'[i]) =>
                 FilterKeys(components'[i]) \cap DOMAIN stabilityTracker'.prevValues = {}
       /\ (Completed' /\ Len(components') = Len(components)) =>
             \A i \in 1..Len(components) :
                 components[i].type = "voltage-source" =>
                     CASE type = "dc" ->
                            components'[i].values.voltage = components[i].properties.voltage
                       [] type = "ac" ->
                            components'[i].values.voltage =
                                Waveform(Amplitude(components[i]), Frequency(components[i]), time, 0)
                       [] OTHER ->
                            components'[i].voltage =
                                IF Falsy(components[i].voltage) THEN ValueOr(components[i], 5000)
                                ELSE components[i].voltage]_vars

\* a transient step has filtered the passive components next to a source
C12_Witness ==
    /\ Completed
    /\ type = "tran"
    /\ DOMAIN stabilityTracker.prevValues # {}
    /\ \E i \in 1..Len(components) : IsSource(components[i]) /\ components[i].voltage = 5000

\* what the first step of a worker reports that was loaded, sent the start
\* message with circuit cs, ws and mode simulationType, and ticked once
FreshFirstReport(cs, ws, simulationType) ==
    LET Report(r) ==
            IF r.threw THEN r.posted \o << Message("simulation-error", << >>, << >>, 0) >>
            ELSE IF r.returns
                 THEN r.posted \o
                      << Message("simulation-update",
                                 ComponentSnapshot([i \in 1..Len(r.components) |->
                                                        validateComponent(r.components[i])]),
                                 WireSnapshot([i \in 1..Len(r.wires) |-> validateWire(r.wires[i])]),
                                 0) >>
                 ELSE r.posted
    IN  Report(analyse(simulationType,
                       [i \in 1..Len(cs) |-> validateComponent(cs[i])],
                       [i \in 1..Len(ws) |-> validateWire(ws[i])],
                       configureTracker(InitialTracker, simulationType), 0))

\* C15: the first step after a start message reports what the first step
\* of a freshly loaded worker reports for the same start message, whatever
\* the worker ran and stopped before.
C15_SameInputsSameReport ==
    [][(/\ lastOp = "start-simulation"
        /\ Cardinality(timers) = 1
        /\ lastOp' = "step-start")
       => outbox' = FreshFirstReport(components, wires, type)]_vars

\* the circuit is a 10 V source in front of two 1 kOhm resistors in series
\* and a ground
IsVoltageDivider(cs) ==
    /\ Len(cs) = 4
    /\ cs[1].type = "voltage-source" /\ cs[1].properties.voltage = 10000
    /\ \A i \in {2, 3} : cs[i].type = "resistor" /\ cs[i].properties.resistance = 1000
    /\ cs[4].type = "ground"

\* C16: in the voltage divider every step leaves 5 V across each resistor
\* and 5 mA through it.
C16_DividerHalvesVoltage ==
    (Stepped /\ IsVoltageDivider(components)) =>
        \A i \in {2, 3} :
            /\ components[i].values.voltage = 5000
            /\ components[i].values.current = 5000

\* C19: a step in AC mode posts exactly one frequency-response, for every
\* circuit, and nothing else posts one: no other operation and no step
\* in another mode.
C19_OneFrequencyResponsePerACStep ==
    IF Stepped /\ type = "ac"
    THEN Cardinality(Posted("frequency-response")) = 1
    ELSE Posted("frequency-response") = {}

\* one source, one resistor and one capacitor, no inductor
IsSeriesRC(cs) ==
    /\ Len(Select(cs, "voltage-source")) = 1
    /\ Len(Select(cs, "resistor")) = 1
    /\ Len(Select(cs, "capacitor")) = 1
    /\ Len(Select(cs, "inductor")) = 0

\* 1 / (2 pi R C) in Hz, R in ohm and C in uF
Cutoff(cs) ==
    159155 \div (OrElse(ValueValue(Select(cs, "resistor")[1]), 1000)
                  * OrElse(ValueValue(Select(cs, "capacitor")[1]), 10))

\* C20: in the frequency response an AC step posts for a series R-C
\* circuit the magnitude never rises from one frequency above the cutoff
\* to a higher one.
C20_MagnitudeFallsAboveCutoff ==
    (Stepped /\ type = "ac" /\ Posted("frequency-response") # {} /\ IsSeriesRC(components)) =>
        \A data \in {frequencyResponse(components)} :
            \A j, k \in 1..Len(data) :
                (j < k /\ data[j].frequency > Cutoff(components)) =>
                    data[k].magnitude <= data[j].magnitude

\* the two ends of the wires of the editor
WireEnds ==
    UNION {{WireEnd(managerWires[w].startPoint, managerWires[w].startConnection),
            WireEnd(managerWires[w].endPoint, managerWires[w].endConnection)} :
           w \in DOMAIN managerWires}

\* the binding names a component that exists and one of its connection points
Resolves(conn) ==
    /\ conn.componentId \in DOMAIN managerComponents
    /\ conn.connectionPointIndex \in Indices(managerComponents[conn.componentId])

Parameter(c, property) == IF property = "value" THEN ValueValue(c) ELSE Field(c, property)

\* C21: update-component with the id of an existing component sets the
\* named parameter of that component to the given value and of no other
\* component, does not advance the time, and recomputes nothing unless
\* the simulation is running.
C21_UpdateSetsParameter ==
    [][\A id \in UpdateIds, property \in UpdateProperties, v \in UpdateValues :
          (updateComponent(id, property, v) /\ HasComponent(components, id)) =>
              /\ Len(components') = Len(components)
              /\ \A i \in 1..Len(components) :
                     Parameter(components'[i], property) =
                         IF i = FindIndex(components, id) THEN v
                         ELSE Parameter(components[i], property)
              /\ time' = time
              /\ ~running => (wires' = wires /\ ComponentValues' = ComponentValues)]_vars

\* the keys applyStabilization files the samples of the components cs under
TrackedKeys(cs) == UNION {FilterKeys(cs[i]) : i \in 1..Len(cs)}

\* C22: after updateSimulationComponents the histories hold entries for
\* exactly the ids of the current components and wires, and the filter
\* keeps no key of a component that is gone.
C22_HistoryFollowsTopology ==
    lastOp = "update-components" =>
        /\ DOMAIN componentValueHistory = Ids(components)
        /\ DOMAIN wireValueHistory = Ids(wires)
        /\ DOMAIN stabilityTracker.prevValues \subseteq TrackedKeys(components)

\* maxSamples, smoothingFactor and varianceThreshold (in hundredths)
Tuning(tracker) == << tracker.maxSamples, tracker.smoothingFactor, tracker.varianceThreshold >>

\* C23: update-accuracy without a stabilityFactor sets the tuning to
\* (3, 0.5, 0.2) for low, (5, 0.7, 0.1) for medium, (8, 0.8, 0.05) for high
\* and (12, 0.9, 0.02) for ultra; another level or a message without
\* settings leaves the tuning as it is.
C23_AccuracyPresets ==
    [][\A settings \in AllAccuracySettings :
          (updateAccuracy(settings) /\ settings.stabilityFactor = 0) =>
              Tuning(stabilityTracker') =
                  CASE settings.present /\ settings.accuracyLevel = "low" -> << 3, 50, 20 >>
                    [] settings.present /\ settings.accuracyLevel = "medium" -> << 5, 70, 10 >>
                    [] settings.present /\ settings.accuracyLevel = "high" -> << 8, 80, 5 >>
                    [] settings.present /\ settings.accuracyLevel = "ultra" -> << 12, 90, 2 >>
                    [] OTHER -> Tuning(stabilityTracker)]_vars

\* update-accuracy has applied the preset of 'high'
C23_Witness ==
    /\ lastOp = "update-accuracy"
    /\ Tuning(stabilityTracker) = << 8, 80, 5 >>

\* C24: simulationState.speed is a positive number in every reachable
\* state, whatever simulationSpeed a start message carries and whatever
\* speed an update-speed message asks for.
C24_SpeedIsPositive == speed > 0

\* C25: every rolling window of the stability filter is at most as long
\* as the window size configured at the moment: maxSamples for the samples
\* of applyStabilization, VALUES_HISTORY_SIZE for the value histories,
\* also after update-accuracy has changed maxSamples during a run.
C25_WindowsAreBounded ==
    /\ \A key \in DOMAIN stabilityTracker.prevValues :
           Len(stabilityTracker.prevValues[key].values) <= stabilityTracker.maxSamples
    /\ \A id \in DOMAIN componentValueHistory :
           /\ Len(componentValueHistory[id].voltage) <= VALUES_HISTORY_SIZE
           /\ Len(componentValueHistory[id].current) <= VALUES_HISTORY_SIZE
    /\ \A id \in DOMAIN wireValueHistory :
           Len(wireValueHistory[id].current) <= VALUES_HISTORY_SIZE

\* neither end of the wire names a component of cs
Unbound(w, cs) ==
    /\ ~HasComponent(cs, w.source) /\ ~HasComponent(cs, w.target)
    /\ ~HasComponent(cs, w.startComponent) /\ ~HasComponent(cs, w.endComponent)

\* C26: a step in any mode leaves the current of a wire without a bound
\* end as it was or sets it to 0: it never gives such a wire a current.
C26_UnboundWireCarriesNothing ==
    [][(lastOp' \in {"step-start", "step-speed"} /\ Len(wires') = Len(wires)) =>
          \A i \in 1..Len(wires) :
              Unbound(wires[i], components) =>
                  wires'[i].current \in {wires[i].current, 0}]_vars

\* C30: an update-speed message with a speed of 0 or less changes nothing
\* (speed, time, running, the timer handle and the live timers, the values
\* of components and wires, the histories) and posts no event; an
\* update-speed with a positive speed while not running changes the speed
\* only and installs no timer.
C30_UpdateSpeedGuard ==
    [][\A s \in UpdateSpeeds :
          updateSimulationSpeed(s) =>
              /\ s <= 0 =>
                    /\ UNCHANGED << simState, simulationInterval, timers, nextTimerId >>
                    /\ outbox' = << >>
              /\ (s > 0 /\ ~running) =>
                    /\ speed' = s
                    /\ UNCHANGED << running, type, components, wires, time, iterationCount,
                                    componentValueHistory, wireValueHistory, stabilized,
                                    stabilityTracker, simulationInterval, timers, nextTimerId >>]_vars

\* a running simulation with its timer alive, right after an update-speed
\* that was ignored: the speed is still the one of the start
C30_Witness ==
    /\ lastOp = "update-speed"
    /\ running
    /\ speed = 1
    /\ simulationInterval.state = "timer"
    /\ timers # {}

(* ======================= the per-component update rules ======================= *)
\* The second declaration of performTransientAnalysis (1854) replaces the
\* first (898), the only caller of processVoltageSource, processTransistor
\* and applyConservationLaws: no step of the worker reaches them.  They are
\* checked as functions, applied to inputs drawn from the sets below.

\* component.values[field]: a property that is absent reads as undefined
Stored(values, field) == IF field \in DOMAIN values THEN values[field] ELSE Undefined

(* ---------------- processVoltageSource and the AC waveforms ---------------- *)
RuleWaveforms == {"dc", "sine", "square", "triangle", "sawtooth"}

RuleAmplitudes == {5000, 10000}

RuleFrequencies == {1, 10, 60}

RuleOffsets == {0, 1000}

RuleTimes == {0, 1, 3}

SourceParameters(waveform, amplitude, frequency, dcOffset) ==
    [frequency |-> frequency, amplitude |-> amplitude, waveform |-> waveform,
     dcOffset |-> dcOffset]

\* a voltage source that carries the same waveform, amplitude, frequency
\* and offset where the transient rule reads them (component.parameters)
\* and where the AC analysis reads them (component.value, component.properties)
RuleSource(id, parameters) ==
    [type |-> "voltage-source", id |-> id, values |-> ZeroValues, parameters |-> parameters]

\* the sign of Math.sin(2 * Math.PI * frequency * t), p = frequency * t in
\* hundredths of a period: the sine is 0 only for the argument 0; at a later
\* multiple of pi the floating-point sine is a small number, positive at
\* odd multiples and negative at even ones
SineSign(p) ==
    IF p = 0 THEN 0
    ELSE IF p % 100 = 0 THEN 0 - 1
    ELSE IF p % 100 <= 50 THEN 1
    ELSE 0 - 1

Abs(x) == IF x < 0 THEN 0 - x ELSE x

\* waveform || d: a waveform that is absent is modelled as the empty string
WaveformOr(waveform, d) == IF waveform = "" THEN d ELSE waveform

\* the switch of performACAnalysis over waveformType; any other type,
\* 'dc' included, takes the default branch, the sine
acWaveform(waveformType, amplitude, frequency, t) ==
    LET p == frequency * t
    IN  CASE waveformType = "square" -> amplitude * SineSign(p)
          [] waveformType = "triangle" -> (amplitude * (2 * Abs(((2 * p) % 200) - 100) - 100)) \div 100
          [] waveformType = "sawtooth" -> (amplitude * (2 * (p % 100) - 100)) \div 100
          [] OTHER -> Waveform(amplitude, frequency, t, 0)

\* the voltage performACAnalysis assigns to a voltage source
acSourceVoltage(c, t) ==
    acWaveform(WaveformOr(c.parameters.waveform, "sine"), OrElse(c.parameters.amplitude, 5000),
               OrElse(c.parameters.frequency, 1000), t)

processVoltageSource(c, t) ==
    LET amplitude == OrElse(c.parameters.amplitude, 5000)
        frequency == OrElse(c.parameters.frequency, 1)
        dcOffset == OrElse(c.parameters.dcOffset, 0)
        waveform == WaveformOr(c.parameters.waveform, "dc")
        p == frequency * t
        voltage ==
            CASE waveform = "sine" -> Waveform(amplitude, frequency, t, 0) + dcOffset
              [] waveform = "square" ->
                   (IF SineSign(p) >= 0 THEN amplitude ELSE 0 - amplitude) + dcOffset
              [] waveform = "triangle" ->
                   (amplitude * (2 * Abs((p % 100) - 50) - 50) * 2) \div 100 + dcOffset
              [] waveform = "sawtooth" -> (amplitude * ((p % 100) - 50) * 2) \div 100 + dcOffset
              [] OTHER -> amplitude
        current == OrElse(c.values.current, 0)
    IN  [c EXCEPT !.values = Values(voltage, current, Power(voltage, current))]

\* one source under both rules at the same simulated time: components[1]
\* holds the voltage of the AC analysis, components[2] the transient rule's
VoltageSourceRules(parameters, t) ==
    /\ components' = << [RuleSource("ac", parameters) EXCEPT
                            !.values.voltage = acSourceVoltage(RuleSource("ac", parameters), t)],
                        processVoltageSource(RuleSource("transient", parameters), t) >>
    /\ time' = t
    /\ outbox' = << >>
    /\ lastOp' = "processVoltageSource"
    /\ threw' = FALSE
    /\ UNCHANGED << running, speed, type, wires, iterationCount, componentValueHistory,
                    wireValueHistory, stabilized, stabilityTracker, simulationInterval, timers,
                    nextTimerId, lifecycle, editorState >>

(* ---------------- processTransistor ---------------- *)
RuleTransistorTypes == {"transistor-npn", "transistor-pnp"}

RuleBetas == {50, 100, 200}

RuleBaseVoltages == {0 - 5000, 0, 800, 5000}

RuleCollectorVoltages == {0 - 5000, 0, 5000}

\* a transistor with its emitter at 0 V and a voltage source on the base
\* and on the collector: components[1] is the transistor, components[2..4]
\* the sources of base, collector and emitter
TransistorCircuit(transistorType, beta, vb, vc) ==
    [components |-> << [type |-> transistorType, id |-> "q1", values |-> ZeroValues,
                        parameters |-> [beta |-> beta, vbe |-> Undefined]],
                       EditorComponent("vb", "voltage-source", NoProperties, Values(vb, 0, 0)),
                       EditorComponent("vc", "voltage-source", NoProperties, Values(vc, 0, 0)),
                       EditorComponent("ve", "voltage-source", NoProperties, Values(0, 0, 0)) >>,
     wires |-> << Wire("wb", "vb", "q1", 0, vb), Wire("wc", "vc", "q1", 0, vc),
                  Wire("we", "ve", "q1", 0, 0) >>]

\* the forward-active conditions of lines 1236-1251
ForwardActive(q, vb, vc, ve) ==
    LET vbe == OrElse(q.parameters.vbe, 700)
        vbe_actual == vb - ve
    IN  IF q.type = "transistor-npn"
        THEN vbe_actual > vbe /\ vc > ve
        ELSE vbe_actual < 0 - vbe /\ vc < ve

\* The second statement calls getComponentConnections, which the worker
\* declares nowhere and imports from nowhere: a ReferenceError ends the
\* function before it reads a parameter, and component.values keeps what it
\* held.  (Were the call to return, the read of vbe_actual in the object
\* literal of line 1266, outside the block that declares the const at 1233,
\* would be the next ReferenceError.)
processTransistor(c) == [c |-> c, threw |-> TRUE]

TransistorRule(circuit) ==
    /\ \E r \in {processTransistor(circuit.components[1])} :
          /\ components' = [circuit.components EXCEPT ![1] = r.c]
          /\ threw' = r.threw
    /\ wires' = circuit.wires
    /\ outbox' = << >>
    /\ lastOp' = "processTransistor"
    /\ UNCHANGED << running, speed, type, time, iterationCount, componentValueHistory,
                    wireValueHistory, stabilized, stabilityTracker, simulationInterval, timers,
                    nextTimerId, lifecycle, editorState >>

(* ---------------- applyConservationLaws ---------------- *)
RuleCircuits == {CircuitSeries, CircuitDivider, CircuitRC, CircuitEmpty}

\* the forEach over the components calls getComponentConnections for the
\* first component: a ReferenceError, the worker declares no such function
findVoltageLoops(cs) ==
    IF Len(cs) = 0 THEN [threw |-> FALSE, loops |-> << >>]
    ELSE [threw |-> TRUE, loops |-> << >>]

\* With no loop found the first half adjusts nothing.  findCurrentNodes
\* builds a node from wire.connections, an array no wire of the editor
\* carries: there is no node, and the second half adjusts nothing either.
applyConservationLaws(cs, ws) ==
    [components |-> cs, wires |-> ws, threw |-> findVoltageLoops(cs).threw]

ConservationRule(circuit) ==
    /\ \E r \in {applyConservationLaws(circuit.components, circuit.wires)} :
          /\ components' = r.components
          /\ wires' = r.wires
          /\ threw' = r.threw
    /\ outbox' = << >>
    /\ lastOp' = "applyConservationLaws"
    /\ UNCHANGED << running, speed, type, time, iterationCount, componentValueHistory,
                    wireValueHistory, stabilized, stabilityTracker, simulationInterval, timers,
                    nextTimerId, lifecycle, editorState >>

RulesNext ==
    \/ \E waveform \in RuleWaveforms, amplitude \in RuleAmplitudes, frequency \in RuleFrequencies,
          dcOffset \in RuleOffsets, t \in RuleTimes :
          VoltageSourceRules(SourceParameters(waveform, amplitude, frequency, dcOffset), t)
    \/ \E transistorType \in RuleTransistorTypes, beta \in RuleBetas, vb \in RuleBaseVoltages,
          vc \in RuleCollectorVoltages :
          TransistorRule(TransistorCircuit(transistorType, beta, vb, vc))
    \/ \E circuit \in RuleCircuits : ConservationRule(circuit)

RulesSpec == Init /\ [][RulesNext]_vars

\* C27: after processTransistor the stored currents satisfy Kirchhoff's
\* current law, emitter_current = base_current + current; the collector
\* current is beta times the base current in the forward-active region and
\* the three currents are 0 outside it.
C27_TransistorKCL ==
    lastOp = "processTransistor" =>
        LET q == components[1]
            ib == Stored(q.values, "base_current")
            ic == Stored(q.values, "current")
            ie == Stored(q.values, "emitter_current")
        IN  /\ ~threw
            /\ ie = Add(ib, ic)
            /\ IF ForwardActive(q, components[2].values.voltage, components[3].values.voltage,
                                components[4].values.voltage)
               THEN ic = Mul(OrElse(q.parameters.beta, 100), ib)
               ELSE ib = 0 /\ ic = 0 /\ ie = 0

\* C28: applyConservationLaws completes its single pass and adjusts no
\* source: values.voltage of every voltage source and current source and
\* values.current of every current source are the ones it was given.
C28_CorrectorKeepsSources ==
    [][\A circuit \in RuleCircuits :
          ConservationRule(circuit) =>
              /\ ~threw'
              /\ Len(components') = Len(circuit.components)
              /\ \A i \in 1..Len(circuit.components) :
                    /\ circuit.components[i].type \in {"voltage-source", "current-source"} =>
                          components'[i].values.voltage = circuit.components[i].values.voltage
                    /\ circuit.components[i].type = "current-source" =>
                          components'[i].values.current = circuit.components[i].values.current]_vars

\* C29: for the same waveform, amplitude, frequency and offset and the same
\* simulated time, the voltage the AC analysis assigns to a voltage source
\* is the voltage processVoltageSource assigns.
C29_ACMatchesTransientSource ==
    lastOp = "processVoltageSource" =>
        components[1].values.voltage = components[2].values.voltage

====
